---- MODULE Spec2Model ----
(***************************************************************************)
(* Movie-Api: the Express routes of index.js over the User and Movie       *)
(* collections.  Strings are sequences of one-character strings, so that   *)
(* the validators and the password hash are computed, not assumed.         *)
(***************************************************************************)
EXTENDS Integers, Sequences, FiniteSets, TLC

VARIABLES users, nextId, pending, last, snapshot, mongooseMajor

vars == <<users, nextId, pending, last, snapshot, mongooseMajor>>

(* ---------------------------- bounds ----------------------------------- *)
MaxIds == 2
MaxPending == 2
MaxFav == 2

(* ---------------------------- values ----------------------------------- *)
\* JavaScript undefined and null; no string of the model equals them
Undefined == <<"undefined">>
Null == <<"null">>

Letters == {"a","b","c","d","e","f","g","h","i","j","k","l","m",
            "n","o","p","q","r","s","t","u","v","w","x","y","z"}
Digits == {"0","1","2","3","4","5","6","7","8","9"}
OidDigit == <<"1","2","3","4","5","6","7","8","9">>

Alice == <<"a","l","i","c","e">>
Bob01 == <<"b","o","b","0","1">>
GoodEmail == <<"a","@","b",".","c">>
Birthday99 == <<"1","9","9","9">>
MovieIds == {<<"m","1">>, <<"m","2">>}
Tokens == {"valid", "invalid", "missing"}

\* the identifier the store gives the n-th created document
Oid(n) == <<"#", OidDigit[n]>>

\* values a route parameter :ID / :id takes in the requests of the model
ParamIds == {Alice, Bob01}

SignupBody(u, p, e) == [Username |-> u, Password |-> p, Email |-> e, Birthday |-> Birthday99]

\* signup bodies: two valid ones, and one for each way of failing a check
SignupBodies ==
    {SignupBody(Alice, <<"p","w">>, GoodEmail),
     SignupBody(Bob01, <<"p","w">>, GoodEmail),
     SignupBody(<<"a","l","i","c">>, <<"p","w">>, GoodEmail),
     SignupBody(<<"a","l","i","c","!">>, <<"p","w">>, GoodEmail),
     SignupBody(Alice, <<>>, GoodEmail),
     SignupBody(Alice, <<"p","w">>, <<"a","b",".","c">>),
     SignupBody(<<>>, <<>>, <<>>)}

\* PUT body: a new password and email, no birthday
PutBodies ==
    {[Username |-> Undefined, Password |-> <<"p","w">>,
      Email |-> <<"z","@","b",".","c">>, Birthday |-> Undefined]}

NoBody == [Username |-> Undefined, Password |-> Undefined,
           Email |-> Undefined, Birthday |-> Undefined]

(* ---------------------------- routes ----------------------------------- *)
RWelcome == "GET /"
RDocs == "GET /documentation"
RMovies == "GET /movies"
RMovieTitle == "GET /movies/:title"
RGenre == "GET /movies/genre/:name"
RDirector == "GET /movies/director/:name"
RGetUsers == "GET /users"
RPostUsers == "POST /users"
RPutUser == "PUT /users/:ID"
RAddFavorite == "POST /users/:ID/:movieID"
RUnregister == "DELETE /users/:id/unregister"
RRemoveFavorite == "DELETE /users/:ID/:deleteFavorite"

\* mutant: PUT /users/:ID registered without the guard
Protected_PutUnguarded ==
    {RMovies, RMovieTitle, RGenre, RDirector, RGetUsers,
     RAddFavorite, RUnregister, RRemoveFavorite}

\* the routes registered with passport.authenticate('jwt', ...) before the handler
Protected ==
    {RMovies, RMovieTitle, RGenre, RDirector, RGetUsers, RPutUser,
     RAddFavorite, RUnregister, RRemoveFavorite}

\* the JWT strategy accepts a token that verifies and resolves to a user
Authenticate(token) == token = "valid"

Unauthorized(route, token) == route \in Protected /\ ~Authenticate(token)

(* ---------------------------- validation ------------------------------- *)
MinUsernameLen == 5

IsAlphanumeric(s) ==
    /\ Len(s) > 0
    /\ \A i \in 1..Len(s) : s[i] \in Letters \cup Digits

\* one "@" with a local part before it and a dotted domain after it
IsEmail(s) ==
    \E i \in 2..Len(s) :
        /\ s[i] = "@"
        /\ \A j \in 1..Len(s) : s[j] = "@" => j = i
        /\ \A j \in 1..(i-1) : s[j] \in Letters \cup Digits
        /\ \E d \in (i+2)..(Len(s)-1) :
              /\ s[d] = "."
              /\ \A j \in (i+1)..Len(s) : j # d => s[j] \in Letters \cup Digits

\* mutant: the isAlphanumeric check left out of the chain
ValidationErrors_NoAlphanumeric(body) ==
    (IF Len(body.Username) >= MinUsernameLen THEN {} ELSE {"Username is required"})
    \cup (IF body.Password # <<>> THEN {} ELSE {"Password is required"})
    \cup (IF IsEmail(body.Email) THEN {} ELSE {"Email does not appear to be valid"})

\* the checks of the chain that fail, as validationResult(req) collects them
ValidationErrors(body) ==
    (IF Len(body.Username) >= MinUsernameLen THEN {} ELSE {"Username is required"})
    \cup (IF IsAlphanumeric(body.Username) THEN {}
          ELSE {"Username contains non alphanumeric characters - not allowed."})
    \cup (IF body.Password # <<>> THEN {} ELSE {"Password is required"})
    \cup (IF IsEmail(body.Email) THEN {} ELSE {"Email does not appear to be valid"})

\* Users.hashPassword: a salted one-way hash, never the plaintext itself
hashPassword(p) == <<"$","2","b","$">> \o p

(* ---------------------------- store ------------------------------------ *)
\* the paths of the User schema
SchemaPaths == {"_id", "Username", "Password", "Email", "Birthday", "FavoriteMovies"}

\* mongoose 6 strips filter paths the schema lacks; mongoose 5 sends them on
StrictQuery == mongooseMajor = 6
\* mongoose 6 drops undefined values of an update; mongoose 5 writes null
OmitUndefined == mongooseMajor = 6

\* req.params.<name>: undefined when the route declares no parameter of that name
Param(params, name) == IF name \in DOMAIN params THEN params[name] ELSE Undefined

\* does document u satisfy the filter { field: value }
Matches(u, field, value) ==
    IF field \in SchemaPaths THEN u[field] = value
    ELSE IF StrictQuery THEN TRUE
    ELSE value = Undefined

\* position of the first document matching { field: value }, 0 when none does
FindOne(field, value) ==
    IF \E i \in 1..Len(users) : Matches(users[i], field, value)
    THEN CHOOSE i \in 1..Len(users) :
            /\ Matches(users[i], field, value)
            /\ \A j \in 1..(i-1) : ~Matches(users[j], field, value)
    ELSE 0

\* mutant: the lookup filters on a path the schema lacks
UsernameTaken_WrongPath(body) == FindOne("username", body.Username) # 0

\* Users.findOne({ Username: req.body.Username }) resolves to a user
UsernameTaken(body) == FindOne("Username", body.Username) # 0

\* Users.find()
Find == users

\* $set of one path
SetPath(old, v) == IF v = Undefined THEN (IF OmitUndefined THEN old ELSE Null) ELSE v

\* $pull: every element equal to v leaves the array
Pull(list, v) == SelectSeq(list, LAMBDA x : x # v)

RemoveAt(s, i) == SubSeq(s, 1, i-1) \o SubSeq(s, i+1, Len(s))

NewUser(body, hashed) ==
    [_id |-> Oid(nextId), Username |-> body.Username, Password |-> hashed,
     Email |-> body.Email, Birthday |-> body.Birthday, FavoriteMovies |-> <<>>]

(* ---------------------------- responses -------------------------------- *)
\* the latest handler event: status 0 while the request is still in flight
Event(route, token, status, ops, id, movie, body) ==
    [route |-> route, token |-> token, status |-> status, ops |-> ops,
     ID |-> id, movieID |-> movie, body |-> body]

Init ==
    /\ users = <<>>
    /\ nextId = 1
    /\ pending = <<>>
    /\ last = Event("none", "missing", 0, 0, Undefined, Undefined, NoBody)
    /\ snapshot = <<>>
    /\ mongooseMajor \in {5, 6}

(* ---------------------------- guard ------------------------------------ *)
\* passport.authenticate on a protected route: 401, and the handler is not called
Deny(route, token) ==
    /\ Unauthorized(route, token)
    /\ last' = Event(route, token, 401, 0, Undefined, Undefined, NoBody)
    /\ snapshot' = <<>>
    /\ UNCHANGED <<users, nextId, pending, mongooseMajor>>

(* ---------------------------- static routes ---------------------------- *)
\* GET /documentation: res.sendFile, no store access
Documentation ==
    /\ last' = Event(RDocs, "missing", 200, 0, Undefined, Undefined, NoBody)
    /\ snapshot' = <<>>
    /\ UNCHANGED <<users, nextId, pending, mongooseMajor>>

\* GET /: res.send('Welcome to my movie club!')
Welcome ==
    /\ last' = Event(RWelcome, "missing", 200, 0, Undefined, Undefined, NoBody)
    /\ snapshot' = <<>>
    /\ UNCHANGED <<users, nextId, pending, mongooseMajor>>

(* ---------------------------- movie reads ------------------------------ *)
\* a read of the Movie collection: one query, mapped to ok or to failed
MovieRead(route, token, err, ok, failed) ==
    /\ ~Unauthorized(route, token)
    /\ last' = Event(route, token, IF err THEN failed ELSE ok, 1,
                     Undefined, Undefined, NoBody)
    /\ snapshot' = <<>>
    /\ UNCHANGED <<users, nextId, pending, mongooseMajor>>

GetMovies(token, err) == MovieRead(RMovies, token, err, 201, 400)

GetMovieByTitle(token, err) == MovieRead(RMovieTitle, token, err, 200, 500)

GetGenre(token, err) == MovieRead(RGenre, token, err, 200, 500)

GetDirector(token, err) == MovieRead(RDirector, token, err, 200, 500)

(* ---------------------------- user routes ------------------------------ *)
\* GET /users: Users.find()
GetUsers(token, err) ==
    /\ ~Unauthorized(RGetUsers, token)
    /\ last' = Event(RGetUsers, token, IF err THEN 400 ELSE 201, 1,
                     Undefined, Undefined, NoBody)
    /\ snapshot' = <<>>
    /\ UNCHANGED <<users, nextId, pending, mongooseMajor>>

\* POST /users, up to the settling of Users.findOne({ Username })
PostUsers(token, body, err) ==
    /\ ~Unauthorized(RPostUsers, token)
    /\ snapshot' = <<>>
    /\ UNCHANGED <<users, nextId, mongooseMajor>>
    /\ IF ValidationErrors(body) # {}
       THEN /\ last' = Event(RPostUsers, token, 422, 0, Undefined, Undefined, body)
            /\ UNCHANGED pending
       ELSE IF err
       THEN /\ last' = Event(RPostUsers, token, 500, 1, Undefined, Undefined, body)
            /\ UNCHANGED pending
       ELSE IF UsernameTaken(body)
       THEN /\ last' = Event(RPostUsers, token, 400, 1, Undefined, Undefined, body)
            /\ UNCHANGED pending
       ELSE /\ Len(pending) < MaxPending
            /\ (nextId - 1) + Len(pending) < MaxIds
            /\ pending' = Append(pending,
                                 [token |-> token, body |-> body,
                                  hashed |-> hashPassword(body.Password)])
            /\ last' = Event(RPostUsers, token, 0, 1, Undefined, Undefined, body)

\* mutant: the created user is read back with a third store call
PostUsersCreate_ReadBack(k, err) ==
    /\ k \in 1..Len(pending)
    /\ pending' = RemoveAt(pending, k)
    /\ snapshot' = <<>>
    /\ UNCHANGED mongooseMajor
    /\ IF err
       THEN /\ last' = Event(RPostUsers, pending[k].token, 500, 2, Undefined, Undefined,
                             pending[k].body)
            /\ UNCHANGED <<users, nextId>>
       ELSE /\ users' = Append(users, NewUser(pending[k].body, pending[k].hashed))
            /\ nextId' = nextId + 1
            /\ last' = Event(RPostUsers, pending[k].token, 201, 3, Undefined, Undefined,
                             pending[k].body)

\* POST /users, the settling of Users.create for the k-th request in flight
PostUsersCreate(k, err) ==
    /\ k \in 1..Len(pending)
    /\ pending' = RemoveAt(pending, k)
    /\ snapshot' = <<>>
    /\ UNCHANGED mongooseMajor
    /\ IF err
       THEN /\ last' = Event(RPostUsers, pending[k].token, 500, 2, Undefined, Undefined,
                             pending[k].body)
            /\ UNCHANGED <<users, nextId>>
       ELSE /\ users' = Append(users, NewUser(pending[k].body, pending[k].hashed))
            /\ nextId' = nextId + 1
            /\ last' = Event(RPostUsers, pending[k].token, 201, 2, Undefined, Undefined,
                             pending[k].body)

\* PUT /users/:ID
PutUser(token, id, body, err) ==
    LET params == [ID |-> id]
        i == FindOne("id", Param(params, "id"))
    IN  /\ ~Unauthorized(RPutUser, token)
        /\ snapshot' = <<>>
        /\ UNCHANGED <<nextId, pending, mongooseMajor>>
        /\ IF err
           THEN /\ last' = Event(RPutUser, token, 500, 1, id, Undefined, body)
                /\ UNCHANGED users
           ELSE /\ last' = Event(RPutUser, token, 200, 1, id, Undefined, body)
                /\ users' =
                     IF i = 0 THEN users
                     ELSE [users EXCEPT
                             ![i].Password = SetPath(@, body.Password),
                             ![i].Email = SetPath(@, body.Email),
                             ![i].Birthday = SetPath(@, body.Birthday)]

\* POST /users/:ID/:movieID
AddFavorite(token, id, movie, err) ==
    LET params == [ID |-> id, movieID |-> movie]
        i == FindOne("user_name", Param(params, "ID"))
    IN  /\ ~Unauthorized(RAddFavorite, token)
        /\ snapshot' = users
        /\ UNCHANGED <<nextId, pending, mongooseMajor>>
        /\ IF err
           THEN /\ last' = Event(RAddFavorite, token, 500, 1, id, movie, NoBody)
                /\ UNCHANGED users
           ELSE /\ last' = Event(RAddFavorite, token, 200, 1, id, movie, NoBody)
                /\ i # 0 => Len(users[i].FavoriteMovies) < MaxFav
                /\ users' =
                     IF i = 0 THEN users
                     ELSE [users EXCEPT ![i].FavoriteMovies =
                              Append(@, Param(params, "movieID"))]

\* DELETE /users/:id/unregister
Unregister(token, id, err) ==
    LET params == [id |-> id]
        i == FindOne("id", Param(params, "id"))
    IN  /\ ~Unauthorized(RUnregister, token)
        /\ snapshot' = <<>>
        /\ UNCHANGED <<nextId, pending, mongooseMajor>>
        /\ IF err
           THEN /\ last' = Event(RUnregister, token, 500, 1, id, Undefined, NoBody)
                /\ UNCHANGED users
           ELSE IF i = 0
           THEN /\ last' = Event(RUnregister, token, 400, 1, id, Undefined, NoBody)
                /\ UNCHANGED users
           ELSE /\ last' = Event(RUnregister, token, 200, 1, id, Undefined, NoBody)
                /\ users' = RemoveAt(users, i)

\* DELETE /users/:ID/:deleteFavorite
RemoveFavorite(token, id, movie, err) ==
    LET params == [ID |-> id, deleteFavorite |-> movie]
        i == FindOne("user_name", Param(params, "id"))
    IN  /\ ~Unauthorized(RRemoveFavorite, token)
        /\ snapshot' = <<>>
        /\ UNCHANGED <<nextId, pending, mongooseMajor>>
        /\ IF err
           THEN /\ last' = Event(RRemoveFavorite, token, 500, 1, id, movie, NoBody)
                /\ UNCHANGED users
           ELSE /\ last' = Event(RRemoveFavorite, token, 200, 1, id, movie, NoBody)
                /\ users' =
                     IF i = 0 THEN users
                     ELSE [users EXCEPT ![i].FavoriteMovies =
                              Pull(@, Param(params, "MovieID"))]

Routes ==
    {RWelcome, RDocs, RMovies, RMovieTitle, RGenre, RDirector, RGetUsers, RPostUsers,
     RPutUser, RAddFavorite, RUnregister, RRemoveFavorite}

Next ==
    \/ \E route \in Routes, token \in Tokens : Deny(route, token)
    \/ Documentation
    \/ Welcome
    \/ \E token \in Tokens, err \in BOOLEAN : GetMovies(token, err)
    \/ \E token \in Tokens, err \in BOOLEAN : GetMovieByTitle(token, err)
    \/ \E token \in Tokens, err \in BOOLEAN : GetGenre(token, err)
    \/ \E token \in Tokens, err \in BOOLEAN : GetDirector(token, err)
    \/ \E token \in Tokens, err \in BOOLEAN : GetUsers(token, err)
    \/ \E body \in SignupBodies, err \in BOOLEAN : PostUsers("missing", body, err)
    \/ \E k \in 1..MaxPending, err \in BOOLEAN : PostUsersCreate(k, err)
    \/ \E token \in Tokens, id \in ParamIds, body \in PutBodies, err \in BOOLEAN :
          PutUser(token, id, body, err)
    \/ \E token \in Tokens, id \in ParamIds, movie \in MovieIds, err \in BOOLEAN :
          AddFavorite(token, id, movie, err)
    \/ \E token \in Tokens, id \in ParamIds, err \in BOOLEAN : Unregister(token, id, err)
    \/ \E token \in Tokens, id \in ParamIds, movie \in MovieIds, err \in BOOLEAN :
          RemoveFavorite(token, id, movie, err)

Spec == Init /\ [][Next]_vars

(* ======================================================================= *)
(* Properties                                                              *)
(* ======================================================================= *)
\* a step taken by the first part of POST /users (validation and findOne)
SignupLookupStep == last'.route = RPostUsers /\ Len(pending') >= Len(pending)

\* the handler ran and has sent its response
HandlerResponded == last.route # "none" /\ last.status # 0 /\ last.status # 401

\* the plaintext passwords request bodies carry
SubmittedPasswords ==
    {b.Password : b \in SignupBodies \cup PutBodies} \ {Undefined}

PayloadValid(body) ==
    /\ Len(body.Username) >= 5
    /\ \A i \in 1..Len(body.Username) : body.Username[i] \in Letters \cup Digits
    /\ body.Password # <<>>
    /\ IsEmail(body.Email)

StoreUntouched == users' = users /\ pending' = pending /\ nextId' = nextId

\* C1: no two stored User records have the same Username, whatever the
\* interleaving of the lookups and creates of concurrent signups.
C1_UsernameUnique ==
    \A i, j \in 1..Len(users) : i # j => users[i].Username # users[j].Username

\* C2: no stored User record has a Password equal to a plaintext password
\* submitted in a request body.
C2_PasswordHashedAtRest ==
    \A i \in 1..Len(users) : users[i].Password \notin SubmittedPasswords

\* C3 (as stated): a valid signup whose Username is already stored when the
\* lookup runs is answered 400 and leaves the store unchanged.
C3_DuplicateAlways400 ==
    [][(/\ SignupLookupStep
        /\ PayloadValid(last'.body)
        /\ \E i \in 1..Len(users) : users[i].Username = last'.body.Username)
       => (last'.status = 400 /\ StoreUntouched)]_vars

\* C3 (amended): a valid signup whose Username is already stored when the
\* lookup runs is answered 400, or 500 when the lookup itself fails; in both
\* cases no record is created and the store is unchanged.
C3_Duplicate400Or500 ==
    [][(/\ SignupLookupStep
        /\ PayloadValid(last'.body)
        /\ \E i \in 1..Len(users) : users[i].Username = last'.body.Username)
       => (last'.status \in {400, 500} /\ StoreUntouched)]_vars

C3_Witness ==
    /\ last.route = RPostUsers
    /\ last.status = 400
    /\ \E i \in 1..Len(users) : users[i].Username = last.body.Username

\* C4: on each of the nine protected routes a request whose token is missing
\* or invalid is answered 401, no handler runs (no store operation is issued)
\* and the store is unchanged.
C4_Unauthenticated401 ==
    [][(/\ last'.route \in
             {"GET /movies", "GET /movies/:title", "GET /movies/genre/:name",
              "GET /movies/director/:name", "GET /users", "PUT /users/:ID",
              "POST /users/:ID/:movieID", "DELETE /users/:id/unregister",
              "DELETE /users/:ID/:deleteFavorite"}
        /\ last'.token \in {"missing", "invalid"})
       => (last'.status = 401 /\ last'.ops = 0 /\ StoreUntouched)]_vars

C4_Witness ==
    /\ last.route = RPutUser
    /\ last.token = "invalid"
    /\ last.status = 401
    /\ users # <<>>

\* C5: a signup whose Username is shorter than 5 characters or has a
\* non-alphanumeric character, or whose Password is empty, or whose Email is
\* invalid, is answered 422 before any store read or write, and no record
\* is created.
C5_InvalidSignup422 ==
    [][(/\ SignupLookupStep
        /\ \/ Len(last'.body.Username) < 5
           \/ \E i \in 1..Len(last'.body.Username) :
                 last'.body.Username[i] \notin Letters \cup Digits
           \/ last'.body.Password = <<>>
           \/ ~IsEmail(last'.body.Email))
       => (last'.status = 422 /\ last'.ops = 0 /\ StoreUntouched)]_vars

C5_Witness ==
    /\ last.route = RPostUsers
    /\ last.status = 422
    /\ Len(last.body.Username) = 5
    /\ ~IsAlphanumeric(last.body.Username)
    /\ last.body.Password # <<>>
    /\ IsEmail(last.body.Email)
    /\ users # <<>>

\* C6: POST /users/:ID/:movieID followed by DELETE /users/:ID/:deleteFavorite
\* with the same user and movie id leaves the FavoriteMovies of that user, if
\* the user exists, as it was before the add.
C6_AddRemoveRoundTrip ==
    [][(/\ last.route = RAddFavorite /\ last.status = 200
        /\ last'.route = RRemoveFavorite /\ last'.status = 200
        /\ last'.ID = last.ID /\ last'.movieID = last.movieID)
       => \A i \in 1..Len(snapshot) :
             snapshot[i].Username = last.ID
             => \E j \in 1..Len(users') :
                   /\ users'[j]._id = snapshot[i]._id
                   /\ users'[j].FavoriteMovies = snapshot[i].FavoriteMovies]_vars

\* C7: once POST /users has answered a valid payload without a store error, a
\* read of the users returns a record with the submitted Username, and the
\* Password of such a record is not the submitted plaintext.
C7_SignupThenReadable ==
    (/\ last.route = RPostUsers
     /\ last.status # 0 /\ last.status # 422 /\ last.status # 500)
    => /\ \E i \in 1..Len(Find) : Find[i].Username = last.body.Username
       /\ \A i \in 1..Len(Find) :
             Find[i].Username = last.body.Username
             => Find[i].Password # last.body.Password

\* C8: DELETE /users/:id/unregister removes the user identified by :id and
\* answers 200; when there is no such user it answers 400 and the store is
\* unchanged; every other record is left as it was.
C8_UnregisterRemovesTarget ==
    [][(/\ last'.route = RUnregister
        /\ last'.status # 401 /\ last'.status # 500)
       => IF \E i \in 1..Len(users) : users[i].Username = last'.ID
          THEN /\ last'.status = 200
               /\ \E i \in 1..Len(users) :
                     /\ users[i].Username = last'.ID
                     /\ users' = RemoveAt(users, i)
          ELSE /\ last'.status = 400
               /\ users' = users]_vars

\* C9 (as stated): every handler that is reached issues exactly one store
\* operation before it responds.
C9_ExactlyOneStoreOp == HandlerResponded => last.ops = 1

\* C9 (amended): every handler of a store-backed route other than POST /users
\* issues exactly one store operation per request that reaches it; POST /users
\* issues none when validation fails, one (findOne) when the Username is taken
\* or the lookup fails, and two (findOne, then create) on the creation path;
\* the two static routes issue none.
C9_StoreOpsPerHandler ==
    HandlerResponded =>
        IF last.route \in {RWelcome, RDocs} THEN last.ops = 0
        ELSE IF last.route = RPostUsers
        THEN /\ last.status = 422 => last.ops = 0
             /\ last.status = 400 => last.ops = 1
             /\ last.status = 500 => last.ops \in {1, 2}
             /\ last.status = 201 => last.ops = 2
             /\ last.status \in {422, 400, 500, 201}
        ELSE last.ops = 1

C9_Witness ==
    /\ last.route = RPostUsers
    /\ last.status = 201
    /\ last.ops = 2
    /\ \E i \in 1..Len(users) : users[i].Username = last.body.Username

\* C10: PUT /users/:ID changes at most one record, the one identified by :ID,
\* and in it only Password, Email and Birthday; no Username or FavoriteMovies
\* changes, and no user is created or deleted.
C10_PutFrame ==
    [][(last'.route = RPutUser /\ last'.status # 401)
       => /\ Len(users') = Len(users)
          /\ Cardinality({i \in 1..Len(users) : users'[i] # users[i]}) <= 1
          /\ \A i \in 1..Len(users) :
                /\ users'[i]._id = users[i]._id
                /\ users'[i].Username = users[i].Username
                /\ users'[i].FavoriteMovies = users[i].FavoriteMovies
                /\ users'[i] # users[i] => users[i].Username = last'.ID]_vars

====
